---- MODULE Spec2Model ----
(***************************************************************************)
(* Model of the weighted heat risk pipeline                                *)
(* (ai/weighted_heat_risk_pipeline.py) and of the fetch step that builds   *)
(* its input table (ai/fetch_pipeline_data.py).                            *)
(*                                                                         *)
(* Numbers.  Table cells are fixed-point integers in units of 1/100        *)
(* (30.50 degrees is 3050, facility_distance 0.25 is 25).  A rolling mean  *)
(* divides by 1..window, so temp_rolling is kept in units of 1/(100*Scale) *)
(* with Scale = lcm(1..MaxWindow): every mean the code forms is then an    *)
(* exact integer.  Severity scores are exact rationals (num, den) compared *)
(* by cross-multiplication; the IEEE rounding of the float arithmetic is   *)
(* not modelled.  A missing cell (NaN / pd.NA) is the value NaN.           *)
(***************************************************************************)
EXTENDS Integers, Sequences, FiniteSets, TLC

\* ------------------------------------------------------------------ bounds
MaxRows == 3
MaxWindow == 2
MaxK == 2

\* ------------------------------------------------------- value domains
Units == {1, 2}
Dates == {1, 2}
TempVals == {3000, 3050}
FacVals == {100, 25}
NaN == -1

AllCols == {"barangay_id", "date", "temperature", "facility_distance", "facility_score"}
StdCols == {"barangay_id", "date", "temperature", "facility_distance"}

\* weights = np.array([0.6, 0.4]), in tenths
W_TEMP == 6
W_FAC == 4

\* csv: the input file; args: the parsed command line; ppc: where main is;
\* df, features_scaled: main's locals; error: the message of the exception (or of
\* the return 1) that ended the run; output: the rows to_csv wrote; writes: how
\* many times to_csv ran; stages: the calls of main that returned, in order
VARIABLES csv, args, ppc, df, features_scaled, error, output, writes, stages

\* the fetch script.  utc_date: the calendar day; snapshot: the --output file;
\* fpc: where main is; fargs: its command line; today, temperatures,
\* facility_counts: main's locals; futures: the pool's tasks (bid -> state and
\* result of fetch_one); fallback: the batch request failed in this run; runs: how
\* many runs have started
VARIABLES utc_date, snapshot, fpc, fargs, today, temperatures, facility_counts,
          futures, fallback, runs

pvars == <<args, ppc, df, features_scaled, error, output, writes, stages>>
fvars == <<utc_date, snapshot, fpc, fargs, today, temperatures, facility_counts,
           futures, fallback, runs>>
vars == <<csv, pvars, fvars>>

\* ------------------------------------------------------------ arithmetic
RECURSIVE Gcd(_, _)
Gcd(a, b) == IF b = 0 THEN a ELSE Gcd(b, a % b)

RECURSIVE LcmUpTo(_)
LcmUpTo(n) == IF n <= 1 THEN 1 ELSE LET l == LcmUpTo(n - 1) IN (l * n) \div Gcd(l, n)

Scale == LcmUpTo(MaxWindow)

RECURSIVE SumSet(_, _)
SumSet(f, S) == IF S = {} THEN 0 ELSE LET x == CHOOSE y \in S : TRUE IN f[x] + SumSet(f, S \ {x})

SetMax(S) == CHOOSE x \in S : \A y \in S : y <= x
SetMin(S) == CHOOSE x \in S : \A y \in S : x <= y

SeqsUpTo(S, n) == UNION {[1..m -> S] : m \in 0..n}

\* ------------------------------------------------------------- load_data
MissingRequired(col) ==
    CASE col = "barangay_id" -> "Missing required column: barangay_id"
      [] col = "date" -> "Missing required column: date"
      [] col = "temperature" -> "Missing required column: temperature"

MissingFacility == "Missing column: facility_distance or facility_score"

\* mutant: the loop over the required columns stops before "temperature"
load_error_skips_temperature(cols) ==
    IF "barangay_id" \notin cols THEN MissingRequired("barangay_id")
    ELSE IF "date" \notin cols THEN MissingRequired("date")
    ELSE IF "facility_distance" \notin cols /\ "facility_score" \notin cols THEN MissingFacility
    ELSE ""

\* the message load_data raises on these columns, "" when it returns
load_error(cols) ==
    IF "barangay_id" \notin cols THEN MissingRequired("barangay_id")
    ELSE IF "date" \notin cols THEN MissingRequired("date")
    ELSE IF "temperature" \notin cols THEN MissingRequired("temperature")
    ELSE IF "facility_distance" \notin cols /\ "facility_score" \notin cols THEN MissingFacility
    ELSE ""

NewRow(b, d, t, f) ==
    [barangay_id |-> b, date |-> d, temperature |-> t, facility_distance |-> f,
     temp_rolling |-> NaN, facility_score |-> NaN, cluster |-> NaN, risk_level |-> NaN]

load_data(file) ==
    [i \in 1..Len(file.rows) |->
        LET r == file.rows[i] IN
        NewRow(r.barangay_id, r.date, r.temperature,
               IF "facility_distance" \in file.cols THEN r.facility_distance
               ELSE r.facility_score)]

\* ------------------------------------------------------ prepare_features
KeyLE(a, b) ==
    \/ a.barangay_id < b.barangay_id
    \/ a.barangay_id = b.barangay_id /\ a.date <= b.date

RECURSIVE InsertSorted(_, _)
InsertSorted(s, r) ==
    IF s = <<>> THEN <<r>>
    ELSE IF KeyLE(s[Len(s)], r) THEN Append(s, r)
    ELSE Append(InsertSorted(SubSeq(s, 1, Len(s) - 1), r), s[Len(s)])

\* df.sort_values(["barangay_id", "date"]): stable
RECURSIVE sort_values(_)
sort_values(s) ==
    IF s = <<>> THEN <<>>
    ELSE InsertSorted(sort_values(SubSeq(s, 1, Len(s) - 1)), s[Len(s)])

nunique_dates(s) == Cardinality({s[i].date : i \in 1..Len(s)})

\* the first row of the group (barangay_id) that row i of the sorted table is in
GroupStart(s, i) == SetMin({j \in 1..i : s[j].barangay_id = s[i].barangay_id})

\* mutant: rolling over the whole sorted table, without the groupby
WindowRows_ungrouped(s, i, window) ==
    LET lo == IF i - window + 1 > 1 THEN i - window + 1 ELSE 1
    IN lo..i

WindowRows(s, i, window) ==
    LET lo == IF i - window + 1 > GroupStart(s, i) THEN i - window + 1 ELSE GroupStart(s, i)
    IN lo..i

\* x.rolling(window, min_periods=1).mean() at row i: the mean of the non-missing
\* temperatures of the window, NaN when there is none; in units of 1/(100*Scale)
rolling_mean(s, i, window) ==
    LET obs == {j \in WindowRows(s, i, window) : s[j].temperature # NaN}
        temp == [j \in 1..Len(s) |-> s[j].temperature]
    IN IF obs = {} THEN NaN ELSE (SumSet(temp, obs) * Scale) \div Cardinality(obs)

raw_temperature(t) == IF t = NaN THEN NaN ELSE t * Scale

\* mutant: the branch tests the flag only, not the number of dates
use_rolling_branch_flag_only(s, use_rolling) == use_rolling

use_rolling_branch(s, use_rolling) == use_rolling /\ nunique_dates(s) > 1

add_features(d, use_rolling, window) ==
    LET s == sort_values(d) IN
    [i \in 1..Len(s) |->
        [s[i] EXCEPT
            !.temp_rolling = IF use_rolling_branch(s, use_rolling)
                             THEN rolling_mean(s, i, window)
                             ELSE raw_temperature(s[i].temperature),
            !.facility_score = s[i].facility_distance]]

NaNScaled == [num |-> 0, den |-> 0]

\* features.fillna(features.mean()) then MinMaxScaler().fit_transform, one column:
\* col is the column as a sequence; the result is a sequence of rationals in [0,1]
\* (den = 0 marks NaN: a column that is missing everywhere stays missing)
scale_column(col) ==
    LET n == Len(col)
        obs == {i \in 1..n : col[i] # NaN}
        c == Cardinality(obs)
        filled == [i \in 1..n |-> IF col[i] # NaN THEN col[i] * c ELSE SumSet(col, obs)]
        lo == SetMin({filled[i] : i \in 1..n})
        hi == SetMax({filled[i] : i \in 1..n})
    IN [i \in 1..n |->
          IF c = 0 THEN NaNScaled
          ELSE IF hi = lo THEN [num |-> 0, den |-> 1]
          ELSE [num |-> filled[i] - lo, den |-> hi - lo]]

scale_features(d) ==
    LET t == scale_column([i \in 1..Len(d) |-> d[i].temp_rolling])
        f == scale_column([i \in 1..Len(d) |-> d[i].facility_score])
    IN [i \in 1..Len(d) |-> <<t[i], f[i]>>]

\* -------------------------------------------- run_kmeans_and_risk_levels
HasNaN(X) == \E i \in 1..Len(X) : X[i][1].den = 0 \/ X[i][2].den = 0

\* KMeans(n_clusters).fit_predict(X) raises on NaN and on fewer samples than clusters
fit_raises(X, n_clusters) == Len(X) < n_clusters \/ HasNaN(X)

\* the labellings fit_predict may return: each row one of n_clusters labels, equal
\* points in the same cluster (a row's label is its nearest centre)
Labellings(X, n_clusters) ==
    {l \in [1..Len(X) -> 0..(n_clusters - 1)] :
        \A i, j \in 1..Len(X) : X[i] = X[j] => l[i] = l[j]}

Present(labels) == {labels[i] : i \in DOMAIN labels}

\* df.groupby("cluster")[col].mean() for one cluster: (sum, count) of the
\* non-missing values, count 0 when the mean is NaN
group_mean(col, labels, c) ==
    LET obs == {i \in DOMAIN labels : labels[i] = c /\ col[i] # NaN}
    IN [sum |-> SumSet(col, obs), cnt |-> Cardinality(obs)]

\* cluster_means.dot(weights) for one cluster, as a rational with the constant
\* factor 1/(10*100*Scale) left out; den = 0 when the score is NaN
severity_score(d, labels, c) ==
    LET t == group_mean([i \in 1..Len(d) |-> d[i].temp_rolling], labels, c)
        f == group_mean([i \in 1..Len(d) |-> d[i].facility_score], labels, c)
    IN [num |-> W_TEMP * t.sum * f.cnt + W_FAC * Scale * f.sum * t.cnt,
        den |-> t.cnt * f.cnt]

ScoreLess(a, b) == a.num * b.den < b.num * a.den
ScoreEq(a, b) == a.num * b.den = b.num * a.den

\* mutant: ranks counted from 0 (an argsort position instead of a rank)
cluster_rank_zero_based(d, labels, c) ==
    LET sc(x) == severity_score(d, labels, x)
        others == {x \in Present(labels) : sc(x).den # 0}
    IN IF sc(c).den = 0 THEN NaN
       ELSE Cardinality({x \in others : ScoreLess(sc(x), sc(c))})
            + Cardinality({x \in others : x < c /\ ScoreEq(sc(x), sc(c))})

\* mutant: ascending=False
cluster_rank_descending(d, labels, c) ==
    LET sc(x) == severity_score(d, labels, x)
        others == {x \in Present(labels) : sc(x).den # 0}
    IN IF sc(c).den = 0 THEN NaN
       ELSE 1 + Cardinality({x \in others : ScoreLess(sc(c), sc(x))})
              + Cardinality({x \in others : x < c /\ ScoreEq(sc(x), sc(c))})

\* mutant: among equal scores the later cluster is ranked first
cluster_rank_ties_reversed(d, labels, c) ==
    LET sc(x) == severity_score(d, labels, x)
        others == {x \in Present(labels) : sc(x).den # 0}
    IN IF sc(c).den = 0 THEN NaN
       ELSE 1 + Cardinality({x \in others : ScoreLess(sc(x), sc(c))})
              + Cardinality({x \in others : x > c /\ ScoreEq(sc(x), sc(c))})

\* Series.rank(method="first", ascending=True) over the clusters in index (label)
\* order: NaN scores keep rank NaN (here NaN)
cluster_rank(d, labels, c) ==
    LET sc(x) == severity_score(d, labels, x)
        others == {x \in Present(labels) : sc(x).den # 0}
    IN IF sc(c).den = 0 THEN NaN
       ELSE 1 + Cardinality({x \in others : ScoreLess(sc(x), sc(c))})
              + Cardinality({x \in others : x < c /\ ScoreEq(sc(x), sc(c))})

\* .astype(int) raises when a rank is NaN
rank_raises(d, labels) == \E c \in Present(labels) : cluster_rank(d, labels, c) = NaN

assign_risk(d, labels) ==
    [i \in 1..Len(d) |->
        [d[i] EXCEPT !.cluster = labels[i],
                     !.risk_level = cluster_rank(d, labels, labels[i])]]

\* ------------------------------------------------------------------ main
latest_date(d) == SetMax({d[i].date : i \in 1..Len(d)})

RECURSIVE SelectSeq2(_, _)
SelectSeq2(s, dt) ==
    IF s = <<>> THEN <<>>
    ELSE LET rest == SelectSeq2(SubSeq(s, 1, Len(s) - 1), dt)
             r == s[Len(s)]
         IN IF r.date = dt
            THEN Append(rest, [barangay_id |-> r.barangay_id,
                               risk_level |-> r.risk_level, cluster |-> r.cluster])
            ELSE rest

df_latest(d) == SelectSeq2(d, latest_date(d))

\* ------------------------------------------------------- pipeline inputs
AbsentFile == [exists |-> FALSE, cols |-> {}, rows |-> <<>>]

CsvRow(b, d, t, fd, fs) ==
    [barangay_id |-> b, date |-> d, temperature |-> t,
     facility_distance |-> fd, facility_score |-> fs]

ArgSet == [no_rolling : BOOLEAN, window : 1..MaxWindow, clusters : 1..MaxK]

\* history tables: several units and dates, temperatures possibly missing; the
\* file is in date order, as appending each day's rows leaves it
HistoryTables ==
    {rows \in SeqsUpTo({CsvRow(b, d, t, 100, NaN) :
                           b \in Units, d \in Dates, t \in TempVals \cup {NaN}}, MaxRows) :
        \A i, j \in 1..Len(rows) : i < j => rows[i].date <= rows[j].date}

HistoryInputs ==
    {[csv |-> [exists |-> TRUE, cols |-> StdCols, rows |-> rows], args |-> a] :
        rows \in HistoryTables,
        a \in {x \in ArgSet : x.clusters = 1}}

\* one-day snapshots, one row per unit (units 1, 2, ...): any temperature
\* (possibly missing) and facility value
SnapshotTables ==
    {[i \in 1..Len(cells) |-> CsvRow(i, 1, cells[i][1], cells[i][2], NaN)] :
        cells \in SeqsUpTo((TempVals \cup {NaN}) \X FacVals, MaxRows)}

SnapshotInputs ==
    {[csv |-> [exists |-> TRUE, cols |-> StdCols, rows |-> rows], args |-> a] :
        rows \in SnapshotTables,
        a \in {x \in ArgSet : ~x.no_rolling /\ x.window = 1}}

\* tables with any set of columns
ColumnInputs ==
    {[csv |-> [exists |-> TRUE, cols |-> cols, rows |-> rows], args |-> a] :
        cols \in (SUBSET AllCols) \ {{}},
        rows \in SeqsUpTo({CsvRow(b, 1, 3000, fd, 25) :
                              b \in Units, fd \in {100, NaN}}, 2) \ {<<>>},
        a \in {x \in ArgSet : ~x.no_rolling /\ x.window = 1 /\ x.clusters = 1}}

MissingInputs == {[csv |-> AbsentFile, args |-> a] : a \in {x \in ArgSet : x.window = 1}}

PipeInputs == HistoryInputs \cup SnapshotInputs \cup ColumnInputs \cup MissingInputs

PipeStart ==
    /\ ppc = "start"
    /\ df = <<>>
    /\ features_scaled = <<>>
    /\ error = ""
    /\ output = <<>>
    /\ writes = 0
    /\ stages = <<>>

FetchIdle ==
    /\ utc_date = 1
    /\ snapshot = <<>>
    /\ fpc = "idle"
    /\ fargs = [append |-> FALSE, workers |-> 1]
    /\ today = 0
    /\ temperatures = <<>>
    /\ facility_counts = <<>>
    /\ futures = <<>>
    /\ fallback = FALSE
    /\ runs = 0

\* the pipeline alone, on any input
InitPipe ==
    /\ \E in \in PipeInputs : csv = in.csv /\ args = in.args
    /\ PipeStart
    /\ FetchIdle

\* ------------------------------------------------------ pipeline actions
\* The two scripts are run one after the other (fetch, then the pipeline): the
\* pipeline starts when no fetch run is under way, and no fetch run starts once
\* the pipeline has read its input.
FetchEnded == fpc \in {"idle", "exit0", "exit1", "crashed"}

\* main: if not input_path.exists(): return 1
InputNotFound ==
    /\ ppc = "start"
    /\ FetchEnded
    /\ ~csv.exists
    /\ ppc' = "failed"
    /\ error' = "Error: input file not found"
    /\ UNCHANGED <<fvars, csv, args, df, features_scaled, output, writes, stages>>

LoadOk ==
    /\ ppc = "start"
    /\ FetchEnded
    /\ csv.exists
    /\ load_error(csv.cols) = ""
    /\ df' = load_data(csv)
    /\ ppc' = "loaded"
    /\ stages' = Append(stages, "load_data")
    /\ UNCHANGED <<fvars, csv, args, features_scaled, error, output, writes>>

LoadFail ==
    /\ ppc = "start"
    /\ FetchEnded
    /\ csv.exists
    /\ load_error(csv.cols) # ""
    /\ error' = load_error(csv.cols)
    /\ ppc' = "failed"
    /\ UNCHANGED <<fvars, csv, args, df, features_scaled, output, writes, stages>>

PrepareOk ==
    /\ ppc = "loaded"
    /\ Len(df) > 0
    /\ df' = add_features(df, ~args.no_rolling, args.window)
    /\ features_scaled' = scale_features(df')
    /\ ppc' = "prepared"
    /\ stages' = Append(stages, "prepare_features")
    /\ UNCHANGED <<fvars, csv, args, error, output, writes>>

\* MinMaxScaler.fit_transform raises on a table with no rows
PrepareFail ==
    /\ ppc = "loaded"
    /\ Len(df) = 0
    /\ error' = "ValueError: Found array with 0 sample(s)"
    /\ ppc' = "failed"
    /\ UNCHANGED <<fvars, csv, args, df, features_scaled, output, writes, stages>>

FitFail ==
    /\ ppc = "prepared"
    /\ fit_raises(features_scaled, args.clusters)
    /\ error' = "ValueError: KMeans.fit_predict"
    /\ ppc' = "failed"
    /\ UNCHANGED <<fvars, csv, args, df, features_scaled, output, writes, stages>>

ClusterOk ==
    /\ ppc = "prepared"
    /\ ~fit_raises(features_scaled, args.clusters)
    /\ \E labels \in Labellings(features_scaled, args.clusters) :
          /\ ~rank_raises(df, labels)
          /\ df' = assign_risk(df, labels)
    /\ ppc' = "clustered"
    /\ stages' = Append(stages, "run_kmeans_and_risk_levels")
    /\ UNCHANGED <<fvars, csv, args, features_scaled, error, output, writes>>

\* df here is the local df of run_kmeans_and_risk_levels when it raised
RankFail ==
    /\ ppc = "prepared"
    /\ ~fit_raises(features_scaled, args.clusters)
    /\ \E labels \in Labellings(features_scaled, args.clusters) :
          /\ rank_raises(df, labels)
          /\ df' = [i \in 1..Len(df) |-> [df[i] EXCEPT !.cluster = labels[i]]]
    /\ error' = "IntCastingNaNError: Cannot convert non-finite values (NA or inf) to integer"
    /\ ppc' = "failed"
    /\ UNCHANGED <<fvars, csv, args, features_scaled, output, writes, stages>>

\* mutant: the table is written before the clustering call
WriteOutput_before_clustering ==
    /\ ppc = "prepared"
    /\ output' = df_latest(df)
    /\ writes' = writes + 1
    /\ ppc' = "done"
    /\ stages' = Append(stages, "to_csv")
    /\ UNCHANGED <<fvars, csv, args, df, features_scaled, error>>

WriteOutput ==
    /\ ppc = "clustered"
    /\ output' = df_latest(df)
    /\ writes' = writes + 1
    /\ ppc' = "done"
    /\ stages' = Append(stages, "to_csv")
    /\ UNCHANGED <<fvars, csv, args, df, features_scaled, error>>

NextPipe ==
    \/ InputNotFound
    \/ LoadOk
    \/ LoadFail
    \/ PrepareOk
    \/ PrepareFail
    \/ FitFail
    \/ ClusterOk
    \/ RankFail
    \/ WriteOutput

SpecPipe == InitPipe /\ [][NextPipe]_vars

\* ============================================================= the fetch
MaxRuns == 2
MaxWorkers == 2

\* what the backend can answer: temperatures in units of 1/1000 degree, facility
\* counts for which 1/(1+count) has two decimals (so round(.., 6) changes nothing)
ApiTemps == {30496}
Counts == {0, 3}

\* round(temp, 2), in units of 1/100
round_temp(temp) == (temp + 5) \div 10

\* 1.0 / (1.0 + facility_count), in units of 1/100
facility_count_to_distance(facility_count) == 100 \div (1 + facility_count)

\* the answers of GET /api/facilities/by-barangay/<id>: 200 with a total, 404,
\* a failed request (connection error, timeout, 5xx: requests.RequestException),
\* and 200 with a body that int(data.get("total") or 0) cannot read (ValueError,
\* TypeError, AttributeError; with older requests also a body that is not JSON)
Responses ==
    {[kind |-> "ok", total |-> c] : c \in Counts}
        \cup {[kind |-> k, total |-> 0] : k \in {"not_found", "request_exception", "bad_payload"}}

\* what get_facility_count does on a response: returns a count or raises
get_facility_count(resp) ==
    CASE resp.kind = "not_found" -> [raises |-> "", count |-> 0]
      [] resp.kind = "request_exception" -> [raises |-> "RequestException", count |-> 0]
      [] resp.kind = "bad_payload" -> [raises |-> "ValueError", count |-> 0]
      [] OTHER -> [raises |-> "", count |-> resp.total]

\* fetch_one: except requests.RequestException: return (bid, 0)
fetch_one(resp) ==
    LET r == get_facility_count(resp) IN
    IF r.raises = "RequestException" THEN [raises |-> "", count |-> 0] ELSE r

Put(dict, key, value) ==
    [x \in (DOMAIN dict) \cup {key} |-> IF x = key THEN value ELSE dict[x]]

Get(dict, key, default) == IF key \in DOMAIN dict THEN dict[key] ELSE default

RECURSIVE SeqOfSet(_)
SeqOfSet(S) == IF S = {} THEN <<>> ELSE LET x == SetMin(S) IN <<x>> \o SeqOfSet(S \ {x})

\* rows = [...] for barangay_id, temp in temperatures.items()
fetch_rows ==
    LET ids == SeqOfSet(DOMAIN temperatures) IN
    [i \in 1..Len(ids) |->
        CsvRow(ids[i], today, round_temp(temperatures[ids[i]]),
               facility_count_to_distance(Get(facility_counts, ids[i], 0)), NaN)]

\* existing[c] = pd.NA for the columns it lacks, then pd.concat([existing, df])
append_rows(existing, rows) ==
    [exists |-> TRUE,
     cols |-> IF existing.exists THEN existing.cols \cup StdCols ELSE StdCols,
     rows |-> (IF existing.exists THEN existing.rows ELSE <<>>) \o rows]

\* main returns or dies: its locals are gone
ProcessExit(code) ==
    /\ fpc' = code
    /\ fargs' = [append |-> FALSE, workers |-> 1]
    /\ today' = 0
    /\ temperatures' = <<>>
    /\ facility_counts' = <<>>
    /\ futures' = <<>>

Running == {b \in DOMAIN futures : futures[b].state = "running"}
Unfinished == {b \in DOMAIN futures : futures[b].state \in {"queued", "running"}}

FetchStart ==
    /\ FetchEnded
    /\ ppc = "start"
    /\ runs < MaxRuns
    /\ \E a \in BOOLEAN, w \in 1..MaxWorkers : fargs' = [append |-> a, workers |-> w]
    /\ today' = utc_date
    /\ temperatures' = <<>>
    /\ facility_counts' = <<>>
    /\ futures' = <<>>
    /\ fallback' = FALSE
    /\ runs' = runs + 1
    /\ fpc' = "heat"
    /\ UNCHANGED <<csv, pvars, utc_date, snapshot>>

\* get_barangay_heat_data raised requests.RequestException: return 1
HeatFail ==
    /\ fpc = "heat"
    /\ ProcessExit("exit1")
    /\ UNCHANGED <<csv, pvars, utc_date, snapshot, fallback, runs>>

\* if not temperatures: return 1
HeatEmpty ==
    /\ fpc = "heat"
    /\ ProcessExit("exit1")
    /\ UNCHANGED <<csv, pvars, utc_date, snapshot, fallback, runs>>

HeatOk ==
    /\ fpc = "heat"
    /\ \E U \in (SUBSET Units) \ {{}} : \E t \in [U -> ApiTemps] : temperatures' = t
    /\ fpc' = "batch"
    /\ UNCHANGED <<csv, pvars, utc_date, snapshot, fargs, today,
                   facility_counts, futures, fallback, runs>>

\* get_facility_counts_batch returned counts for some of the ids
BatchOk ==
    /\ fpc = "batch"
    /\ \E K \in SUBSET (DOMAIN temperatures) : \E c \in [K -> Counts] :
          facility_counts' =
              IF Cardinality(K) < Cardinality(DOMAIN temperatures)
              THEN [b \in DOMAIN temperatures |-> IF b \in K THEN c[b] ELSE 0]
              ELSE c
    /\ fpc' = "rows"
    /\ UNCHANGED <<csv, pvars, utc_date, snapshot, fargs, today, temperatures,
                   futures, fallback, runs>>

\* except requests.RequestException: one future per barangay is submitted
BatchFail ==
    /\ fpc = "batch"
    /\ futures' = [b \in DOMAIN temperatures |->
                      [state |-> "queued", raises |-> "", count |-> 0]]
    /\ fallback' = TRUE
    /\ fpc' = "pool"
    /\ UNCHANGED <<csv, pvars, utc_date, snapshot, fargs, today, temperatures,
                   facility_counts, runs>>

\* the batch answer is one int(v) cannot read: not a RequestException, main dies
BatchCrash ==
    /\ fpc = "batch"
    /\ ProcessExit("crashed")
    /\ UNCHANGED <<csv, pvars, utc_date, snapshot, fallback, runs>>

\* a pool thread takes a queued task: at most max_workers run at once
WorkerStart ==
    /\ fpc \in {"pool", "shutdown"}
    /\ Cardinality(Running) < fargs.workers
    /\ \E b \in DOMAIN futures :
          /\ futures[b].state = "queued"
          /\ futures' = [futures EXCEPT ![b].state = "running"]
    /\ UNCHANGED <<csv, pvars, utc_date, snapshot, fpc, fargs, today, temperatures,
                   facility_counts, fallback, runs>>

\* fetch_one(bid) ends: the future holds its result or its exception
WorkerFinish ==
    /\ fpc \in {"pool", "shutdown"}
    /\ \E b \in Running : \E resp \in Responses :
          futures' = [futures EXCEPT ![b] =
                         [state |-> "finished", raises |-> fetch_one(resp).raises,
                          count |-> fetch_one(resp).count]]
    /\ UNCHANGED <<csv, pvars, utc_date, snapshot, fpc, fargs, today, temperatures,
                   facility_counts, fallback, runs>>

\* for future in as_completed(futures): facility_counts[barangay_id] = count
Collect ==
    /\ fpc = "pool"
    /\ \E b \in DOMAIN futures :
          /\ futures[b].state = "finished"
          /\ futures[b].raises = ""
          /\ facility_counts' = Put(facility_counts, b, futures[b].count)
          /\ futures' = [futures EXCEPT ![b].state = "collected"]
    /\ UNCHANGED <<csv, pvars, utc_date, snapshot, fpc, fargs, today, temperatures,
                   fallback, runs>>

\* future.result() raises what fetch_one raised: the with block is left
CollectRaises ==
    /\ fpc = "pool"
    /\ \E b \in DOMAIN futures :
          /\ futures[b].state = "finished"
          /\ futures[b].raises # ""
    /\ fpc' = "shutdown"
    /\ UNCHANGED <<csv, pvars, utc_date, snapshot, fargs, today, temperatures,
                   facility_counts, futures, fallback, runs>>

\* executor.shutdown(wait=True), then the exception leaves main
ShutdownCrash ==
    /\ fpc = "shutdown"
    /\ Unfinished = {}
    /\ ProcessExit("crashed")
    /\ UNCHANGED <<csv, pvars, utc_date, snapshot, fallback, runs>>

\* every future was collected: the with block ends
PoolExit ==
    /\ fpc = "pool"
    /\ \A b \in DOMAIN futures : futures[b].state = "collected"
    /\ fpc' = "rows"
    /\ UNCHANGED <<csv, pvars, utc_date, snapshot, fargs, today, temperatures,
                   facility_counts, futures, fallback, runs>>

\* if args.append: ... df.to_csv(append_path)
WriteAppend ==
    /\ fpc = "rows"
    /\ fargs.append
    /\ csv' = append_rows(csv, fetch_rows)
    /\ ProcessExit("exit0")
    /\ UNCHANGED <<pvars, utc_date, snapshot, fallback, runs>>

\* else: df.to_csv(args.output)
WriteSnapshot ==
    /\ fpc = "rows"
    /\ ~fargs.append
    /\ snapshot' = fetch_rows
    /\ ProcessExit("exit0")
    /\ UNCHANGED <<csv, pvars, utc_date, fallback, runs>>

\* midnight UTC
NewDay ==
    /\ FetchEnded
    /\ ppc = "start"
    /\ utc_date + 1 \in Dates
    /\ utc_date' = utc_date + 1
    /\ UNCHANGED <<csv, pvars, snapshot, fpc, fargs, today, temperatures,
                   facility_counts, futures, fallback, runs>>

NextFetch ==
    \/ FetchStart
    \/ HeatFail
    \/ HeatEmpty
    \/ HeatOk
    \/ BatchOk
    \/ BatchFail
    \/ BatchCrash
    \/ WorkerStart
    \/ WorkerFinish
    \/ Collect
    \/ CollectRaises
    \/ ShutdownCrash
    \/ PoolExit
    \/ WriteAppend
    \/ WriteSnapshot
    \/ NewDay

\* the history file before the first fetch: none, one with a header only, or one
\* written on an earlier day (day 0) by an older version that had no temperature
\* and facility_distance
HeaderOnly == [exists |-> TRUE, cols |-> StdCols, rows |-> <<>>]
OldFile ==
    [exists |-> TRUE, cols |-> {"barangay_id", "date", "facility_score"},
     rows |-> <<CsvRow(1, 0, NaN, NaN, 25)>>]

InitSys ==
    /\ csv \in {AbsentFile, HeaderOnly, OldFile}
    /\ args \in {x \in ArgSet : x.window = MaxWindow /\ ~x.no_rolling}
    /\ PipeStart
    /\ FetchIdle

NextSys ==
    \/ NextPipe
    \/ NextFetch

\* fetch runs with --append build the history file; the pipeline runs once on it
SpecSys == InitSys /\ [][NextSys]_vars

\* ================================================================ claims
Clustered == ppc \in {"clustered", "done"}
Prepared == "prepare_features" \in {stages[i] : i \in 1..Len(stages)}
Rows == 1..Len(df)
ClustersOf(d) == {d[i].cluster : i \in 1..Len(d)}
RiskOf(c) == df[CHOOSE i \in Rows : df[i].cluster = c].risk_level

\* the severity score of the claims: 0.6 * mean temp_rolling + 0.4 * mean
\* facility_score over the rows of cluster c (missing values left out of a mean),
\* as the rational num/den in units of 1/(1000*Scale)
ClaimScore(c) ==
    LET T == {i \in Rows : df[i].cluster = c /\ df[i].temp_rolling # NaN}
        F == {i \in Rows : df[i].cluster = c /\ df[i].facility_score # NaN}
        tr == [i \in Rows |-> df[i].temp_rolling]
        fs == [i \in Rows |-> df[i].facility_score]
    IN [num |-> 6 * SumSet(tr, T) * Cardinality(F) + 4 * Scale * SumSet(fs, F) * Cardinality(T),
        den |-> Cardinality(T) * Cardinality(F)]

\* C1: after run_kmeans_and_risk_levels every row's risk_level is an integer in
\* 1..k and rows with the same cluster label have the same risk_level.
C1_RiskLevelInRange ==
    Clustered =>
        /\ \A i \in Rows : df[i].risk_level \in 1..args.clusters
        /\ \A i, j \in Rows : df[i].cluster = df[j].cluster => df[i].risk_level = df[j].risk_level

\* C1 witness: a run with k = MaxK, two clusters, one of them with two rows
C1_Witness ==
    /\ Clustered
    /\ args.clusters = MaxK
    /\ \E i, j \in Rows : df[i].cluster # df[j].cluster
    /\ \E i, j \in Rows : i # j /\ df[i].cluster = df[j].cluster

\* C2: a cluster with a strictly smaller severity score never has a larger risk
\* level, and two clusters have the same risk level only when their scores are equal.
C2_RankingMonotone ==
    Clustered =>
        \A a, b \in ClustersOf(df) :
            /\ ScoreLess(ClaimScore(a), ClaimScore(b)) => RiskOf(a) <= RiskOf(b)
            /\ (a # b /\ RiskOf(a) = RiskOf(b)) => ScoreEq(ClaimScore(a), ClaimScore(b))

\* C2 witness: the higher label has the strictly lower score and the lower level
C2_Witness ==
    /\ Clustered
    /\ \E a, b \in ClustersOf(df) :
          /\ a > b
          /\ ScoreLess(ClaimScore(a), ClaimScore(b))
          /\ RiskOf(a) < RiskOf(b)
          /\ \E i, j \in Rows : i # j /\ df[i].cluster = a /\ df[j].cluster = a
                                /\ df[i].temp_rolling # df[j].temp_rolling

\* the columns an error message names
NamedIn(msg) ==
    CASE msg = "Missing required column: barangay_id" -> {"barangay_id"}
      [] msg = "Missing required column: date" -> {"date"}
      [] msg = "Missing required column: temperature" -> {"temperature"}
      [] msg = "Missing column: facility_distance or facility_score" ->
             {"facility_distance", "facility_score"}
      [] OTHER -> {}

LacksRequired ==
    \/ {"barangay_id", "date", "temperature"} \ csv.cols # {}
    \/ {"facility_distance", "facility_score"} \cap csv.cols = {}

Legacy ==
    /\ {"barangay_id", "date", "temperature", "facility_score"} \subseteq csv.cols
    /\ "facility_distance" \notin csv.cols

\* C4: a table that lacks a required column fails in load_data with a message that
\* names a missing column, before prepare_features or the fit has run; a table with
\* facility_score in place of facility_distance is loaded, facility_score being
\* used as facility_distance.
C4_MissingColumnFailsEarly ==
    /\ (csv.exists /\ ppc # "start" /\ LacksRequired) =>
          /\ ppc = "failed"
          /\ NamedIn(error) # {}
          /\ NamedIn(error) \cap csv.cols = {}
          /\ stages = <<>>
          /\ writes = 0
    /\ (csv.exists /\ ppc # "start" /\ Legacy) =>
          /\ NamedIn(error) = {}
          /\ stages # <<>>
          /\ ppc = "loaded" =>
                \A i \in Rows : df[i].facility_distance = csv.rows[i].facility_score

\* C4 witness: a table without temperature (but with facility_score) was rejected
C4_Witness ==
    /\ csv.exists
    /\ ppc = "failed"
    /\ "temperature" \notin csv.cols
    /\ "facility_score" \in csv.cols
    /\ error = "Missing required column: temperature"

\* C5: on a non-empty table whose missing values are imputable (the fit gets no NaN
\* and at least k rows), run_kmeans_and_risk_levels does not raise.
C5_ClustererNeverRaises ==
    ~(/\ ppc = "failed"
      /\ Prepared
      /\ Len(df) > 0
      /\ ~fit_raises(features_scaled, args.clusters))

\* the rows of the unit of row i up to i, the last w of them, the observed ones
SameUnitUpTo(i) == {j \in 1..i : df[j].barangay_id = df[i].barangay_id}
Trailing(i, w) == {j \in SameUnitUpTo(i) : Cardinality({m \in SameUnitUpTo(i) : m >= j}) <= w}
Observed(S) == {j \in S : df[j].temperature # NaN}

SameCells(row, r) ==
    /\ row.barangay_id = r.barangay_id
    /\ row.date = r.date
    /\ row.temperature = r.temperature

\* C6: with rolling on and more than one date, the table keeps the rows of the
\* input, the rows of a unit are in date order, and temp_rolling of a row is the
\* mean of the (non-missing) temperatures of that unit's last W rows up to and
\* including it.
C6_RollingMean ==
    (Prepared /\ ~args.no_rolling /\ nunique_dates(df) > 1) =>
        /\ Len(df) = Len(csv.rows)
        /\ \A r \in {csv.rows[i] : i \in 1..Len(csv.rows)} :
              Cardinality({i \in Rows : SameCells(df[i], r)})
                  = Cardinality({i \in 1..Len(csv.rows) : csv.rows[i] = r})
        /\ \A i \in Rows :
            /\ \A j \in SameUnitUpTo(i) : df[j].date <= df[i].date
            /\ LET obs == Observed(Trailing(i, args.window))
                   temp == [j \in Rows |-> df[j].temperature]
               IN IF obs = {} THEN df[i].temp_rolling = NaN
                  ELSE df[i].temp_rolling * Cardinality(obs) = Scale * SumSet(temp, obs)

\* C6 witness: window 2, the third row of a unit: its mean leaves the first out
C6_Witness ==
    /\ Prepared
    /\ ~args.no_rolling
    /\ nunique_dates(df) > 1
    /\ args.window = 2
    /\ \E i \in Rows :
          /\ Cardinality(SameUnitUpTo(i)) = 3
          /\ df[i].temperature # NaN
          /\ df[i].temp_rolling # Scale * df[i].temperature
          /\ \E j \in SameUnitUpTo(i) \ Trailing(i, 2) : df[j].temperature # df[i].temperature

\* C7: when all rows share one date, or rolling is off, temp_rolling equals
\* temperature on every row (a missing temperature stays missing).
C7_SingleDateBypass ==
    (Prepared /\ (args.no_rolling \/ nunique_dates(df) = 1)) =>
        \A i \in Rows :
            IF df[i].temperature = NaN THEN df[i].temp_rolling = NaN
            ELSE df[i].temp_rolling = Scale * df[i].temperature

\* C7 witness: rolling requested, one date, a unit with two different temperatures
C7_Witness ==
    /\ Prepared
    /\ ~args.no_rolling
    /\ args.window > 1
    /\ nunique_dates(df) = 1
    /\ \E i, j \in Rows :
          /\ i < j
          /\ df[i].barangay_id = df[j].barangay_id
          /\ df[i].temperature # NaN
          /\ df[j].temperature # NaN
          /\ df[i].temperature # df[j].temperature

\* the rows of df on its latest date
LatestRows == {i \in Rows : \A j \in Rows : df[j].date <= df[i].date}

\* C8: the output table is written at most once, only after load_data,
\* prepare_features and run_kmeans_and_risk_levels have returned; a failed run has
\* written nothing; a completed run has written every row of the latest date.
C8_RunAtomic ==
    /\ writes <= 1
    /\ writes = 1 =>
          /\ stages = <<"load_data", "prepare_features", "run_kmeans_and_risk_levels", "to_csv">>
          /\ error = ""
    /\ ppc = "failed" => (writes = 0 /\ output = <<>> /\ error # "")
    /\ ppc = "done" =>
          /\ writes = 1
          /\ Len(output) = Cardinality(LatestRows)
          /\ \A i \in LatestRows :
                LET k == Cardinality({j \in LatestRows : j <= i}) IN
                /\ output[k].barangay_id = df[i].barangay_id
                /\ output[k].risk_level = df[i].risk_level
                /\ output[k].cluster = df[i].cluster

\* C8 witness: a completed run that wrote several rows, fewer than it read
C8_Witness ==
    /\ ppc = "done"
    /\ writes = 1
    /\ Len(output) > 1
    /\ Len(output) < Len(df)

\* C9: of two clusters with equal severity scores, the one with the lower cluster
\* label has the lower risk level.
C9_TiesByLabelOrder ==
    Clustered =>
        \A a, b \in ClustersOf(df) :
            (a < b /\ ScoreEq(ClaimScore(a), ClaimScore(b))) => RiskOf(a) < RiskOf(b)

\* C9 witness: two clusters of different rows with exactly equal scores
C9_Witness ==
    /\ Clustered
    /\ \E a, b \in ClustersOf(df) :
          /\ a < b
          /\ ScoreEq(ClaimScore(a), ClaimScore(b))
          /\ \E i, j \in Rows : df[i].cluster = a /\ df[j].cluster = b
                                /\ df[i].temp_rolling # df[j].temp_rolling

\* C3: a completed pipeline run writes as many rows as there are distinct
\* barangay_id values on the latest date of its input, also when the input is a
\* history file that fetch runs with --append have built.
C3_OneRowPerUnit ==
    ppc = "done" => Len(output) = Cardinality({df[i].barangay_id : i \in LatestRows})

\* C10: once the batch request has failed, the fetch completes whatever the
\* per-unit reads do: never more than `workers` reads run at once, the run does not
\* die, and when the pool is done every unit that has a temperature has a count.
C10_FallbackCompletes ==
    /\ Cardinality(Running) <= fargs.workers
    /\ ~(fpc = "crashed" /\ fallback)
    /\ (fpc = "rows" /\ fallback) => DOMAIN facility_counts = DOMAIN temperatures

====
